---- MODULE Spec2Model ----
(***************************************************************************)
(* Model of service_monitor.py: the ServiceMonitor class (configuration    *)
(* loading, the three probes, monitor_service, determine_overall_status,   *)
(* the poll loop run, save_report) and the __main__ controller.            *)
(*                                                                         *)
(* Python dicts are functions whose DOMAIN is the set of keys present, so  *)
(* that `'port' in service` is "port" \in DOMAIN service.  Strings that    *)
(* the code searches (process names) are sequences of characters.  None    *)
(* is the string "None"; HTTP status codes, pids and metric values are     *)
(* strings, so that a field holding "an int or None" or "an int or an      *)
(* error text" has values of one kind.                                     *)
(***************************************************************************)
EXTENDS Naturals, Sequences, FiniteSets, TLC

VARIABLES
    services,         \* self.services
    history,          \* self.history: name -> deque(maxlen=100), oldest first
    running,          \* self.running
    loopPc,           \* position of the thread executing run()
    services_status,  \* run(): the local list of the cycle in progress
    status,           \* run(): the local `status` of the for body, <<>> when unset
    cycle,            \* number of cycles run() has started
    sinkCount,        \* number of display_status calls made by run()
    sinkLast,         \* the services_status list of the latest display_status call
    mainPc,           \* position of the __main__ controller
    report,           \* save_report(): the list under construction / last built
    nextId,           \* identity of the next dict object monitor_service creates
    pushed,           \* ghost: name -> ids appended to that deque, in order
    env,              \* the probe outcomes the environment can produce in this run
    call,             \* a single monitor_service invocation: argument, outcome, result
    boot,             \* construction of a ServiceMonitor from a configuration file
    probed            \* ghost: the outcome observed by run()'s latest monitor_service call

vars == <<services, history, running, loopPc, services_status, status, cycle,
          sinkCount, sinkLast, mainPc, report, nextId, pushed, env, call, boot, probed>>

(***************************************************************************)
(* Bounds of the model and constants of the program.                       *)
(***************************************************************************)
MaxCycles == 2
MaxRingCycles == 102
HistCap == 100

None == "None"

(***************************************************************************)
(* Python helpers.                                                         *)
(***************************************************************************)
Has(d, k) == k \in DOMAIN d

Get(d, k, default) == IF k \in DOMAIN d THEN d[k] ELSE default

Put(d, k, v) == (k :> v) @@ d

PyAll(checks) == \A k \in 1..Len(checks) : checks[k]

PyAny(checks) == \E k \in 1..Len(checks) : checks[k]

LowerChar(c) ==
    CASE c = "P" -> "p"
      [] c = "G" -> "g"
      [] c = "R" -> "r"
      [] OTHER -> c

Lower(s) == [k \in 1..Len(s) |-> LowerChar(s[k])]

Contains(sub, s) ==
    \E k \in 0..(Len(s) - Len(sub)) : SubSeq(s, k + 1, k + Len(sub)) = sub

(***************************************************************************)
(* The environment a probe observes.                                       *)
(***************************************************************************)
Python == <<"p", "y", "t", "h", "o", "n">>
Postgres == <<"p", "o", "s", "t", "g", "r", "e", "s">>
RedisServer == <<"r", "e", "d", "i", "s", "-", "s", "e", "r", "v", "e", "r">>

ProcTables ==
    { <<>>,
      << [name |-> <<"s", "s", "h", "d">>, pid |-> "11"],
         [name |-> <<"P", "o", "s", "t", "g", "r", "e", "s">>, pid |-> "22"] >>,
      << [name |-> Postgres, pid |-> "33"],
         [name |-> Postgres \o <<":", "w">>, pid |-> "44"] >>,
      << [name |-> Python \o <<"3">>, pid |-> "55"],
         [name |-> RedisServer, pid |-> "66"] >> }

ExitPoints == {"never", "ctor", "cpu", "memory", "threads"}

ConnectResults == {0, 111}

RequestExceptionClasses == {"RequestException", "ConnectionError", "Timeout"}

NoSuchProcessClasses == {"NoSuchProcess", "ZombieProcess"}

HttpResults ==
    { [kind |-> "response", code |-> "200", elapsed |-> "0.02"],
      [kind |-> "response", code |-> "500", elapsed |-> "0.05"],
      [kind |-> "raise", exc |-> "ConnectionError"],
      [kind |-> "raise", exc |-> "Timeout"] }

Outcomes ==
    [table : ProcTables, exitAt : ExitPoints, exitExc : {"NoSuchProcess"},
     connect : ConnectResults, http : HttpResults]

(***************************************************************************)
(* The probes.                                                             *)
(***************************************************************************)
Min(S) == CHOOSE k \in S : \A j \in S : k <= j

CheckProcess(process_name, table) ==
    LET hits == {k \in 1..Len(table) :
                    Contains(Lower(process_name), Lower(table[k].name))}
    IN  IF hits # {} THEN <<TRUE, table[Min(hits)].pid>>
        ELSE <<FALSE, None>>

CheckPort(port, errno) == errno = 0

\* check_endpoint without the except clause of lines 72-73.
CheckEndpoint_Uncaught(url, http) ==
    IF http.kind = "response"
    THEN [exc |-> "none", val |-> <<http.code = "200", http.code, http.elapsed>>]
    ELSE [exc |-> http.exc, val |-> <<FALSE, None, None>>]

CheckEndpoint(url, http) ==
    IF http.kind = "response"
    THEN [exc |-> "none", val |-> <<http.code = "200", http.code, http.elapsed>>]
    ELSE IF http.exc \in RequestExceptionClasses
         THEN [exc |-> "none", val |-> <<FALSE, "str(" \o http.exc \o ")", None>>]
         ELSE [exc |-> http.exc, val |-> <<FALSE, None, None>>]

\* The metrics read with a handler that swallows NoSuchProcess without
\* degrading the check.
ReadMetrics_NoDegrade(process, o) ==
    LET withCpu == Put(process, "cpu", "cpu%")
        withMem == Put(withCpu, "memory", "rssMB")
        withThr == Put(withMem, "threads", "n")
        reached == CASE o.exitAt \in {"ctor", "cpu"} -> process
                     [] o.exitAt = "memory" -> withCpu
                     [] o.exitAt = "threads" -> withMem
                     [] OTHER -> withThr
    IN  [exc |-> "none", val |-> reached]

\* Lines 97-104: the metrics read of a process found by check_process; the
\* process may exit before psutil.Process(pid) or before any of the reads.
ReadMetrics(process, o) ==
    LET withCpu == Put(process, "cpu", "cpu%")
        withMem == Put(withCpu, "memory", "rssMB")
        withThr == Put(withMem, "threads", "n")
        reached == CASE o.exitAt \in {"ctor", "cpu"} -> process
                     [] o.exitAt = "memory" -> withCpu
                     [] o.exitAt = "threads" -> withMem
                     [] OTHER -> withThr
    IN  IF o.exitAt = "never" THEN [exc |-> "none", val |-> reached]
        ELSE IF o.exitExc \in NoSuchProcessClasses
             THEN [exc |-> "none", val |-> [reached EXCEPT !["running"] = FALSE]]
             ELSE [exc |-> o.exitExc, val |-> reached]

\* determine_overall_status with the any() test made before the all() test.
DetermineOverallStatus_AnyFirst(st) ==
    LET c1 == IF Has(st, "process") THEN <<st["process"]["running"]>> ELSE <<>>
        c2 == IF Has(st, "port") THEN <<st["port"]["open"]>> ELSE <<>>
        c3 == IF Has(st, "endpoint") THEN <<st["endpoint"]["healthy"]>> ELSE <<>>
        checks == c1 \o c2 \o c3
    IN  IF checks = <<>> THEN "unknown"
        ELSE IF PyAny(checks) THEN "up"
        ELSE "down"

DetermineOverallStatus(st) ==
    LET c1 == IF Has(st, "process") THEN <<st["process"]["running"]>> ELSE <<>>
        c2 == IF Has(st, "port") THEN <<st["port"]["open"]>> ELSE <<>>
        c3 == IF Has(st, "endpoint") THEN <<st["endpoint"]["healthy"]>> ELSE <<>>
        checks == c1 \o c2 \o c3
    IN  IF checks = <<>> THEN "unknown"
        ELSE IF PyAll(checks) THEN "up"
        ELSE IF PyAny(checks) THEN "warning"
        ELSE "down"

ProcessPart(st, service, o) ==
    IF Has(service, "process_name")
    THEN LET found == CheckProcess(service["process_name"], o.table)
             p == [running |-> found[1],
                   pid |-> IF found[1] THEN found[2] ELSE None]
             m == IF found[1] THEN ReadMetrics(p, o)
                  ELSE [exc |-> "none", val |-> p]
         IN  [exc |-> m.exc, val |-> Put(st, "process", m.val)]
    ELSE [exc |-> "none", val |-> st]

PortPart(st, service, o) ==
    IF Has(service, "port")
    THEN Put(st, "port", [open |-> CheckPort(service["port"], o.connect),
                          number |-> service["port"]])
    ELSE st

EndpointPart(st, service, o) ==
    IF Has(service, "endpoint")
    THEN LET r == CheckEndpoint(service["endpoint"], o.http)
         IN  [exc |-> r.exc,
              val |-> Put(st, "endpoint",
                          [healthy |-> r.val[1], code |-> r.val[2],
                           latency |-> r.val[3], url |-> service["endpoint"]])]
    ELSE [exc |-> "none", val |-> st]

\* monitor_service: exc is the exception that leaves the call ("none" when it
\* returns), st the returned dict.
MonitorService(service, o) ==
    LET s0 == [name |-> service["name"],
               required |-> Get(service, "required", FALSE)]
        s1 == ProcessPart(s0, service, o)
        s2 == PortPart(s1.val, service, o)
        s3 == EndpointPart(s2, service, o)
        exc == IF s1.exc # "none" THEN s1.exc ELSE s3.exc
    IN  [exc |-> exc,
         st |-> IF exc = "none"
                THEN Put(s3.val, "overall", DetermineOverallStatus(s3.val))
                ELSE s3.val]

(***************************************************************************)
(* Configurations.                                                         *)
(***************************************************************************)
HealthUrl == "http://localhost:5000/health"

\* load_config: default_config, lines 25-45.
DefaultConfig ==
    << [name |-> "Web Service", process_name |-> Python, port |-> 5000,
        endpoint |-> HealthUrl, required |-> TRUE],
       [name |-> "Database", process_name |-> Postgres, port |-> 5432,
        required |-> TRUE],
       [name |-> "Cache", process_name |-> RedisServer, port |-> 6379,
        required |-> FALSE] >>

Restrict(d, keys) == [k \in (DOMAIN d) \cap keys |-> d[k]]

\* Service records with every subset of the optional keys.
ServiceSpecs ==
    { Restrict(full, {"name"} \cup keys) :
        full \in { DefaultConfig[1],
                   [DefaultConfig[1] EXCEPT !["required"] = FALSE],
                   [DefaultConfig[1] EXCEPT !["process_name"] = Postgres] },
        keys \in SUBSET {"process_name", "port", "endpoint", "required"} }

\* The parsed configurations of the runs explored: the Database entry of the
\* default configuration alone, and a pair of custom services of which the
\* second configures no check.
Configs ==
    { << DefaultConfig[2] >>,
      << [name |-> "Api", port |-> 8080, endpoint |-> HealthUrl,
          required |-> TRUE],
         [name |-> "Idle"] >> }

Names(svcs) == {svcs[k]["name"] : k \in 1..Len(svcs)}

\* Probe outcomes of the runs explored: everything up, everything down, the
\* process exiting during the metrics read, and a closed port beside a live
\* process and a failing endpoint.
EnvMain ==
    LET up == << [name |-> Postgres, pid |-> "33"] >>
    IN  { [table |-> up, exitAt |-> "never", exitExc |-> "NoSuchProcess",
           connect |-> 0,
           http |-> [kind |-> "response", code |-> "200", elapsed |-> "0.02"]],
          [table |-> <<>>, exitAt |-> "never", exitExc |-> "NoSuchProcess",
           connect |-> 111, http |-> [kind |-> "raise", exc |-> "ConnectionError"]],
          [table |-> up, exitAt |-> "memory", exitExc |-> "NoSuchProcess",
           connect |-> 0,
           http |-> [kind |-> "response", code |-> "500", elapsed |-> "0.05"]],
          [table |-> up, exitAt |-> "never", exitExc |-> "NoSuchProcess",
           connect |-> 111,
           http |-> [kind |-> "response", code |-> "500", elapsed |-> "0.05"]] }

(***************************************************************************)
(* State after ServiceMonitor.__init__ (lines 14-16).                     *)
(***************************************************************************)
Constructed(svcs) ==
    /\ services = svcs
    /\ history = [n \in Names(svcs) |-> <<>>]
    /\ running = TRUE
    /\ services_status = <<>>
    /\ status = <<>>
    /\ cycle = 0
    /\ sinkCount = 0
    /\ sinkLast = <<>>
    /\ report = <<>>
    /\ nextId = 1
    /\ pushed = [n \in Names(svcs) |-> <<>>]
    /\ probed = <<>>

NoCall == [stage |-> "none"]

NoBoot == [stage |-> "none"]

\* __main__, line 218: the monitor is constructed, the thread not yet started.
Init ==
    /\ \E svcs \in Configs : Constructed(svcs)
    /\ loopPc = "unstarted"
    /\ mainPc = "start"
    /\ env = EnvMain
    /\ call = NoCall
    /\ boot = NoBoot

(***************************************************************************)
(* run(), lines 186-202.                                                   *)
(***************************************************************************)
\* A full deque that evicts at the end it appends to.
DequeAppend_EvictNewest(d, x) ==
    IF Len(d) >= HistCap THEN SubSeq(d, 1, Len(d) - 1) \o <<x>> ELSE Append(d, x)

\* deque(maxlen=100).append: a full deque drops its oldest entry.
DequeAppend(d, x) ==
    IF Len(d) >= HistCap THEN Tail(d) \o <<x>> ELSE Append(d, x)

\* The while test of line 189 without the flag.
LoopWhile_IgnoresFlag(cap) ==
    /\ loopPc = "while"
    /\ cycle < cap
    /\ loopPc' = "stats"
    /\ cycle' = cycle + 1
    /\ UNCHANGED <<services, history, running, services_status, status, sinkCount,
                   sinkLast, mainPc, report, nextId, pushed, env, call, boot, probed>>

\* Line 189: the while test; cap bounds the number of cycles explored.
LoopWhile(cap) ==
    /\ loopPc = "while"
    /\ running => cycle < cap
    /\ loopPc' = IF running THEN "stats" ELSE "stopped"
    /\ cycle' = IF running THEN cycle + 1 ELSE cycle
    /\ UNCHANGED <<services, history, running, services_status, status, sinkCount,
                   sinkLast, mainPc, report, nextId, pushed, env, call, boot, probed>>

\* Lines 190-191 and the entry of the for loop.
LoopStats ==
    /\ loopPc = "stats"
    /\ services_status' = <<>>
    /\ loopPc' = IF Len(services) = 0 THEN "display" ELSE "monitor"
    /\ UNCHANGED <<services, history, running, status, cycle, sinkCount, sinkLast,
                   mainPc, report, nextId, pushed, env, call, boot, probed>>

\* Line 194: status = self.monitor_service(service).  An exception leaving the
\* call is not a KeyboardInterrupt, so it ends the thread.
LoopMonitor ==
    /\ loopPc = "monitor"
    /\ \E o \in env :
          LET r == MonitorService(services[Len(services_status) + 1], o)
          IN  IF r.exc = "none"
              THEN /\ status' = << [id |-> nextId, st |-> r.st] >>
                   /\ nextId' = nextId + 1
                   /\ loopPc' = "collect"
                   /\ probed' = <<o>>
              ELSE /\ loopPc' = "died"
                   /\ probed' = <<o>>
                   /\ UNCHANGED <<status, nextId>>
    /\ UNCHANGED <<services, history, running, services_status, cycle, sinkCount,
                   sinkLast, mainPc, report, pushed, env, call, boot>>

\* Line 195.
LoopCollect ==
    /\ loopPc = "collect"
    /\ services_status' = Append(services_status, status[1])
    /\ loopPc' = "record"
    /\ UNCHANGED <<services, history, running, status, cycle, sinkCount, sinkLast,
                   mainPc, report, nextId, pushed, env, call, boot, probed>>

\* The append of line 196 made to the deque of the first configured service.
HistoryAppend_First(h, name, x) ==
    [h EXCEPT ![services[1]["name"]] = DequeAppend(@, x)]

HistoryAppend(h, name, x) == [h EXCEPT ![name] = DequeAppend(@, x)]

\* Line 196 and the next step of the for loop.
LoopRecord ==
    /\ loopPc = "record"
    /\ LET name == services[Len(services_status)]["name"]
       IN  /\ history' = HistoryAppend(history, name, status[1])
           /\ pushed' = [pushed EXCEPT ![name] = Append(@, status[1].id)]
    /\ loopPc' = IF Len(services_status) < Len(services) THEN "monitor"
                 ELSE "display"
    /\ UNCHANGED <<services, running, services_status, status, cycle, sinkCount,
                   sinkLast, mainPc, report, nextId, env, call, boot, probed>>

\* Line 198: the cycle's list is handed to display_status.
LoopDisplay ==
    /\ loopPc = "display"
    /\ sinkCount' = sinkCount + 1
    /\ sinkLast' = services_status
    /\ loopPc' = "sleep"
    /\ UNCHANGED <<services, history, running, services_status, status, cycle,
                   mainPc, report, nextId, pushed, env, call, boot, probed>>

\* Line 199.
LoopSleep ==
    /\ loopPc = "sleep"
    /\ loopPc' = "while"
    /\ UNCHANGED <<services, history, running, services_status, status, cycle,
                   sinkCount, sinkLast, mainPc, report, nextId, pushed, env, call,
                   boot, probed>>

InLoop == loopPc \in {"while", "stats", "monitor", "collect", "record", "display",
                      "sleep"}

\* Lines 201-202: KeyboardInterrupt raised in the thread executing run().
Interrupt ==
    /\ InLoop
    /\ loopPc' = "interrupted"
    /\ UNCHANGED <<services, history, running, services_status, status, cycle,
                   sinkCount, sinkLast, mainPc, report, nextId, pushed, env, call,
                   boot, probed>>

(***************************************************************************)
(* save_report (lines 204-215) and the __main__ controller (217-230).      *)
(***************************************************************************)
\* Lines 221-222.
MainStart ==
    /\ mainPc = "start"
    /\ mainPc' = "sleep30"
    /\ loopPc' = "while"
    /\ UNCHANGED <<services, history, running, services_status, status, cycle,
                   sinkCount, sinkLast, report, nextId, pushed, env, call, boot, probed>>

\* Lines 225-226: the sleep ends and save_report is entered.
MainSleep ==
    /\ mainPc = "sleep30"
    /\ mainPc' = "report"
    /\ report' = <<>>
    /\ UNCHANGED <<services, history, running, loopPc, services_status, status,
                   cycle, sinkCount, sinkLast, nextId, pushed, env, call, boot, probed>>

\* A report entry taken from the service's deque when it has one.
SaveReportEntry_FromHistory(service, o, id) ==
    LET r == MonitorService(service, o)
        h == history[service["name"]]
    IN  [exc |-> r.exc,
         obj |-> IF h # <<>> THEN h[Len(h)] ELSE [id |-> id, st |-> r.st]]

\* Line 209: the element the list comprehension computes for one service, a
\* fresh monitor_service call.
SaveReportEntry(service, o, id) ==
    LET r == MonitorService(service, o)
    IN  [exc |-> r.exc, obj |-> [id |-> id, st |-> r.st]]

\* Line 209: one element of the list comprehension.
ReportProbe ==
    /\ mainPc = "report"
    /\ Len(report) < Len(services)
    /\ \E o \in env :
          LET r == SaveReportEntry(services[Len(report) + 1], o, nextId)
          IN  IF r.exc = "none"
              THEN /\ report' = Append(report, r.obj)
                   /\ nextId' = nextId + 1
                   /\ mainPc' = mainPc
              ELSE /\ mainPc' = "died"
                   /\ UNCHANGED <<report, nextId>>
    /\ UNCHANGED <<services, history, running, loopPc, services_status, status,
                   cycle, sinkCount, sinkLast, pushed, env, call, boot, probed>>

\* Lines 212-215: the report is written and save_report returns.
ReportWrite ==
    /\ mainPc = "report"
    /\ Len(report) = Len(services)
    /\ mainPc' = "clear"
    /\ UNCHANGED <<services, history, running, loopPc, services_status, status,
                   cycle, sinkCount, sinkLast, report, nextId, pushed, env, call,
                   boot, probed>>

\* Line 229.
MainClear ==
    /\ mainPc = "clear"
    /\ running' = FALSE
    /\ mainPc' = "join"
    /\ UNCHANGED <<services, history, loopPc, services_status, status, cycle,
                   sinkCount, sinkLast, report, nextId, pushed, env, call, boot, probed>>

\* Line 230: join returns once the thread has ended.
MainJoin ==
    /\ mainPc = "join"
    /\ loopPc \in {"stopped", "died"}
    /\ mainPc' = "done"
    /\ UNCHANGED <<services, history, running, loopPc, services_status, status,
                   cycle, sinkCount, sinkLast, report, nextId, pushed, env, call,
                   boot, probed>>

LoopNext(cap) ==
    \/ LoopWhile(cap)
    \/ LoopStats
    \/ LoopMonitor
    \/ LoopCollect
    \/ LoopRecord
    \/ LoopDisplay
    \/ LoopSleep

MainNext ==
    \/ MainStart
    \/ MainSleep
    \/ ReportProbe
    \/ ReportWrite
    \/ MainClear
    \/ MainJoin

Next == LoopNext(MaxCycles) \/ MainNext

Spec == Init /\ [][Next]_vars

(***************************************************************************)
(* The controller and the poll loop under the scheduling of the two        *)
(* threads: every thread that can take a step eventually takes one (the    *)
(* probes return, time.sleep returns).                                     *)
(***************************************************************************)
MaxLiveCycles == 2

\* The outcomes of the runs explored here: everything up, everything down.
EnvLive == {o \in EnvMain : o.exitAt = "never" /\ (o.connect = 0 <=> o.http.kind = "response")}

InitLive ==
    /\ \E svcs \in Configs : Constructed(svcs)
    /\ loopPc = "unstarted"
    /\ mainPc = "start"
    /\ env = EnvLive
    /\ call = NoCall
    /\ boot = NoBoot

NextLive == LoopNext(MaxLiveCycles) \/ MainNext

SpecLive ==
    /\ InitLive
    /\ [][NextLive]_vars
    /\ WF_vars(LoopNext(MaxLiveCycles))
    /\ WF_vars(MainNext)

(***************************************************************************)
(* run() called on the thread that receives KeyboardInterrupt.             *)
(***************************************************************************)
InitDirect ==
    /\ \E svcs \in Configs : Constructed(svcs)
    /\ loopPc = "while"
    /\ mainPc = "none"
    /\ env = EnvMain
    /\ call = NoCall
    /\ boot = NoBoot

NextDirect == LoopNext(MaxCycles) \/ Interrupt

SpecDirect == InitDirect /\ [][NextDirect]_vars

(***************************************************************************)
(* run() over many cycles in an environment that does not change.          *)
(***************************************************************************)
InitRing ==
    /\ \E svcs \in Configs : Constructed(svcs)
    /\ loopPc = "while"
    /\ mainPc = "none"
    /\ \E o \in EnvMain : env = {o}
    /\ call = NoCall
    /\ boot = NoBoot

NextRing == LoopNext(MaxRingCycles)

SpecRing == InitRing /\ [][NextRing]_vars

(***************************************************************************)
(* One call of monitor_service, for every service record and outcome.      *)
(***************************************************************************)
InitMonitor ==
    /\ \E svc \in ServiceSpecs, o \in Outcomes :
          /\ Constructed(<<svc>>)
          /\ call = [stage |-> "pending", service |-> svc, outcome |-> o]
          /\ env = {o}
    /\ loopPc = "unstarted"
    /\ mainPc = "none"
    /\ boot = NoBoot

CallMonitor ==
    /\ call.stage = "pending"
    /\ LET r == MonitorService(call.service, call.outcome)
       IN  call' = [stage |-> "returned", service |-> call.service,
                    outcome |-> call.outcome, exc |-> r.exc, st |-> r.st]
    /\ UNCHANGED <<services, history, running, loopPc, services_status, status,
                   cycle, sinkCount, sinkLast, mainPc, report, nextId, pushed, env,
                   boot, probed>>

SpecMonitor == InitMonitor /\ [][CallMonitor]_vars

(***************************************************************************)
(* Construction from a configuration file (lines 13-16, 23-52).  A Python  *)
(* value read from JSON carries its type.                                  *)
(***************************************************************************)
PyList(items) == [type |-> "list", items |-> items]

PyDict(d) == [type |-> "dict", d |-> d]

PyStr(str) == [type |-> "str", s |-> str]

PyInt(n) == [type |-> "int", n |-> n]

DefaultConfigValue == PyList([k \in 1..Len(DefaultConfig) |-> PyDict(DefaultConfig[k])])

ConfigItems ==
    {PyDict(svc) : svc \in ServiceSpecs}
        \cup {PyDict([port |-> 8080]), PyStr("Database")}

ConfigValues ==
    {PyInt(42), PyStr("services"), PyDict([services |-> "Database"]),
     PyDict(<<>>), PyList(<<>>), DefaultConfigValue}
        \cup {PyList(<<a>>) : a \in ConfigItems}
        \cup {PyList(<<a, b>>) : a \in {PyDict(DefaultConfig[2]), PyStr("Database")},
                                 b \in ConfigItems}

ConfigFiles ==
    { [exists |-> FALSE, readable |-> FALSE, text |-> [syntax |-> "none"]],
      [exists |-> TRUE, readable |-> FALSE, text |-> [syntax |-> "none"]],
      [exists |-> TRUE, readable |-> TRUE, text |-> [syntax |-> "invalid"]],
      [exists |-> TRUE, readable |-> TRUE, text |-> [syntax |-> "notutf8"]] }
        \cup { [exists |-> TRUE, readable |-> TRUE,
                text |-> [syntax |-> "json", value |-> v]] : v \in ConfigValues }

\* open(config_file), line 48.
Open(file) ==
    IF ~file.exists THEN "FileNotFoundError"
    ELSE IF ~file.readable THEN "PermissionError"
    ELSE "none"

\* json.load(f), line 49.
JsonLoad(text) ==
    CASE text.syntax = "json" -> [exc |-> "none", val |-> text.value]
      [] text.syntax = "notutf8" -> [exc |-> "UnicodeDecodeError", val |-> PyInt(0)]
      [] OTHER -> [exc |-> "JSONDecodeError", val |-> PyInt(0)]

\* Line 50: the exceptions load_config handles.
LoadConfigCaught == {"FileNotFoundError", "JSONDecodeError"}

\* load_config: exc is the exception that leaves the call, val its result.
LoadConfig(file) ==
    LET opened == Open(file)
        loaded == IF opened = "none" THEN JsonLoad(file.text)
                  ELSE [exc |-> opened, val |-> PyInt(0)]
    IN  IF loaded.exc = "none" THEN loaded
        ELSE IF loaded.exc \in LoadConfigCaught
             THEN [exc |-> "none", val |-> DefaultConfigValue]
             ELSE loaded

\* service['name'] for one element the comprehension of line 15 iterates over.
NameOf(item) ==
    IF item.type = "dict"
    THEN IF "name" \in DOMAIN item.d THEN [exc |-> "none", name |-> item.d["name"]]
         ELSE [exc |-> "KeyError", name |-> None]
    ELSE [exc |-> "TypeError", name |-> None]

\* Line 15: the elements `for service in self.services` yields; a dict yields
\* its keys and a str its characters, both of which are strs.
Iterate(value) ==
    CASE value.type = "list" -> [exc |-> "none", items |-> value.items]
      [] value.type = "dict" ->
            [exc |-> "none",
             items |-> IF DOMAIN value.d = {} THEN <<>> ELSE <<PyStr("key")>>]
      [] value.type = "str" -> [exc |-> "none", items |-> <<PyStr("char")>>]
      [] OTHER -> [exc |-> "TypeError", items |-> <<>>]

\* Line 15: the keys of self.history, or the exception the comprehension raises.
InitHistory(value) ==
    LET it == Iterate(value)
        bad == {k \in 1..Len(it.items) : NameOf(it.items[k]).exc # "none"}
    IN  IF it.exc # "none" THEN [exc |-> it.exc, keys |-> {}]
        ELSE IF bad # {} THEN [exc |-> NameOf(it.items[Min(bad)]).exc, keys |-> {}]
        ELSE [exc |-> "none",
              keys |-> {NameOf(it.items[k]).name : k \in 1..Len(it.items)}]

InitConfig ==
    /\ Constructed(<<>>)
    /\ loopPc = "unstarted"
    /\ mainPc = "none"
    /\ env = EnvMain
    /\ call = NoCall
    /\ \E file \in ConfigFiles : boot = [stage |-> "new", file |-> file]

\* Line 14.
BootLoad ==
    /\ boot.stage = "new"
    /\ LET r == LoadConfig(boot.file)
       IN  boot' = IF r.exc = "none"
                   THEN [stage |-> "loaded", file |-> boot.file, services |-> r.val]
                   ELSE [stage |-> "raised", file |-> boot.file, exc |-> r.exc,
                         at |-> "load_config"]
    /\ UNCHANGED <<services, history, running, loopPc, services_status, status,
                   cycle, sinkCount, sinkLast, mainPc, report, nextId, pushed, env,
                   call, probed>>

\* Lines 15-16.
BootInit ==
    /\ boot.stage = "loaded"
    /\ LET r == InitHistory(boot.services)
       IN  boot' = IF r.exc = "none"
                   THEN [stage |-> "constructed", file |-> boot.file,
                         services |-> boot.services, keys |-> r.keys]
                   ELSE [stage |-> "raised", file |-> boot.file, exc |-> r.exc,
                         at |-> "__init__"]
    /\ UNCHANGED <<services, history, running, loopPc, services_status, status,
                   cycle, sinkCount, sinkLast, mainPc, report, nextId, pushed, env,
                   call, probed>>

NextConfig == BootLoad \/ BootInit

SpecConfig == InitConfig /\ [][NextConfig]_vars

(***************************************************************************)
(* Claims about one monitor_service call, checked under SpecMonitor.       *)
(***************************************************************************)
Verdicts == {"up", "warning", "down", "unknown"}

\* The results of the checks a status carries, as a set.
CheckValues(st) ==
    {st["process"]["running"] : x \in IF Has(st, "process") THEN {1} ELSE {}}
        \cup {st["port"]["open"] : x \in IF Has(st, "port") THEN {1} ELSE {}}
        \cup {st["endpoint"]["healthy"] : x \in IF Has(st, "endpoint") THEN {1} ELSE {}}

VerdictOf(values) ==
    CASE values = {} -> "unknown"
      [] values = {TRUE} -> "up"
      [] values = {FALSE} -> "down"
      [] OTHER -> "warning"

\* C1: for every service record and every combination of probe outcomes,
\* monitor_service returns a status that carries exactly the configured
\* checks and whose overall is unknown with no check, up when all its checks
\* are true, down when all are false, and warning otherwise, whatever the
\* value of required.
C1_Verdict ==
    call.stage = "returned" =>
        /\ call.exc = "none"
        /\ Has(call.st, "process") <=> Has(call.service, "process_name")
        /\ Has(call.st, "port") <=> Has(call.service, "port")
        /\ Has(call.st, "endpoint") <=> Has(call.service, "endpoint")
        /\ call.st["required"] = Get(call.service, "required", FALSE)
        /\ call.st["overall"] = VerdictOf(CheckValues(call.st))

C1_Witness ==
    /\ call.stage = "returned"
    /\ DOMAIN call.service = {"name", "process_name", "port", "endpoint", "required"}
    /\ call.st["process"]["running"]
    /\ ~call.st["port"]["open"]
    /\ call.st["overall"] = "warning"

\* The process named by the service is in the table the presence check scans.
Found(svc, o) ==
    /\ Has(svc, "process_name")
    /\ \E k \in 1..Len(o.table) :
          Contains(Lower(svc["process_name"]), Lower(o.table[k].name))

\* C8: when the process found by the presence check exits before its metrics
\* are read, monitor_service returns without an exception, reports
\* process.running = FALSE and computes overall from that value: never up,
\* and down for a service with no other check.
C8_ExitRace ==
    (/\ call.stage = "returned"
     /\ Found(call.service, call.outcome)
     /\ call.outcome.exitAt # "never") =>
        /\ call.exc = "none"
        /\ call.st["process"]["running"] = FALSE
        /\ call.st["overall"] = VerdictOf(CheckValues(call.st))
        /\ call.st["overall"] # "up"
        /\ (~Has(call.service, "port") /\ ~Has(call.service, "endpoint"))
              => call.st["overall"] = "down"

C8_Witness ==
    /\ call.stage = "returned"
    /\ Found(call.service, call.outcome)
    /\ call.outcome.exitAt = "memory"
    /\ DOMAIN call.service = {"name", "process_name"}
    /\ call.st["overall"] = "down"

\* C10: in every status monitor_service returns, a process check with
\* running = FALSE has pid None and no cpu, memory or threads entry, and a pid
\* is present only when running is TRUE.
C10_PidOnlyWhenRunning ==
    (call.stage = "returned" /\ Has(call.st, "process")) =>
        LET p == call.st["process"]
        IN  /\ ~p["running"] =>
                  /\ p["pid"] = None
                  /\ DOMAIN p \cap {"cpu", "memory", "threads"} = {}
            /\ p["pid"] # None => p["running"]

(***************************************************************************)
(* Claims about the poll loop beside the controller, checked under Spec.   *)
(***************************************************************************)
AtCycleBoundary == loopPc \in {"while", "sleep", "stopped"}

ServiceNamed(n) == CHOOSE svc \in {services[k] : k \in 1..Len(services)} : svc["name"] = n

\* What a failed probe leaves in the status of the call that observed it.
FailuresRecorded(svc, o, st) ==
    /\ (Has(svc, "process_name") /\ ~Found(svc, o)) =>
          /\ st["process"]["running"] = FALSE
          /\ st["process"]["pid"] = None
    /\ (Has(svc, "port") /\ o.connect # 0) => st["port"]["open"] = FALSE
    /\ (Has(svc, "endpoint") /\ (o.http.kind = "raise" \/ o.http.code # "200")) =>
          st["endpoint"]["healthy"] = FALSE
    /\ st["overall"] = VerdictOf(CheckValues(st))

\* C7: a failed probe (process not found, port closed or connect error,
\* endpoint answering other than 200 or failing in transport) is recorded as
\* FALSE in its check and leaves monitor_service as no exception: neither
\* thread ends by an exception, and every cycle that reaches display_status
\* carries one status with an overall verdict for every configured service.
C7_ProbeFailuresRecorded ==
    /\ loopPc # "died"
    /\ mainPc # "died"
    /\ (probed # <<>> /\ status # <<>>) =>
          FailuresRecorded(ServiceNamed(status[1].st["name"]), probed[1], status[1].st)
    /\ loopPc \in {"display", "sleep"} =>
          /\ Len(services_status) = Len(services)
          /\ \A k \in 1..Len(services) :
                /\ services_status[k].st["name"] = services[k]["name"]
                /\ services_status[k].st["overall"] \in Verdicts

C7_Witness ==
    /\ loopPc = "display"
    /\ Len(services) = 2
    /\ probed[1].connect # 0
    /\ probed[1].http.kind = "raise"
    /\ services_status[1].st["port"]["open"] = FALSE
    /\ services_status[1].st["endpoint"]["healthy"] = FALSE
    /\ services_status[1].st["overall"] = "down"

\* C9: every completed cycle probes the services in configuration order,
\* appends one status per service to that service's own deque and calls
\* display_status once with the list of those statuses in configuration
\* order; at a cycle boundary the last entry of each deque is the status of
\* that service in the list last handed to display_status.
C9_CycleHandoff ==
    /\ sinkCount <= cycle
    /\ cycle <= sinkCount + 1
    /\ AtCycleBoundary =>
          /\ sinkCount = cycle
          /\ \A n \in Names(services) : Len(pushed[n]) = cycle
          /\ cycle > 0 =>
                /\ Len(sinkLast) = Len(services)
                /\ \A k \in 1..Len(services) :
                      LET h == history[services[k]["name"]]
                      IN  /\ sinkLast[k].st["name"] = services[k]["name"]
                          /\ h # <<>>
                          /\ h[Len(h)] = sinkLast[k]
                /\ \A k \in 1..(Len(services) - 1) : sinkLast[k].id < sinkLast[k + 1].id

C9_Witness ==
    /\ loopPc = "sleep"
    /\ cycle = 2
    /\ Len(services) = 2
    /\ sinkCount = 2

PushedIds == UNION {{pushed[n][k] : k \in 1..Len(pushed[n])} : n \in DOMAIN pushed}

InSaveReport == mainPc = "report"

ReportReturned == mainPc \in {"clear", "join", "done"}

ReportShape ==
    /\ (InSaveReport \/ ReportReturned) =>
          /\ Len(report) <= Len(services)
          /\ \A k \in 1..Len(report) :
                /\ report[k].st["name"] = services[k]["name"]
                /\ report[k].st["overall"] \in Verdicts
                /\ report[k].id \notin PushedIds
          /\ \A k \in 1..(Len(report) - 1) : report[k].id < report[k + 1].id
    /\ ReportReturned => Len(report) = Len(services)

\* C6: save_report, interleaved in any way with the running poll loop, makes
\* its own monitor_service call for each configured service in configuration
\* order, so that its list holds one fresh status per service, none of them
\* an entry of a deque, and no step of it changes a deque, the run flag or
\* the service list.
C6_ReportIndependent ==
    /\ []ReportShape
    /\ [][(InSaveReport /\ (report' # report \/ mainPc' # mainPc)) =>
             UNCHANGED <<history, pushed, running, services>>]_vars

C6_Witness ==
    /\ mainPc = "clear"
    /\ Len(report) = 2
    /\ loopPc = "record"
    /\ cycle = 2
    /\ report[1].id < services_status[1].id
    /\ services_status[1].id < report[2].id

(***************************************************************************)
(* The History Ring, checked under SpecRing.                               *)
(***************************************************************************)
LastN(seq, n) == IF Len(seq) <= n THEN seq ELSE SubSeq(seq, Len(seq) - n + 1, Len(seq))

Ids(h) == [k \in 1..Len(h) |-> h[k].id]

\* C2: a deque never holds more than 100 entries; it holds the statuses most
\* recently appended for its service, in the order appended, and once more
\* than 100 have been appended the first of them is gone.
C2_HistoryRing ==
    \A n \in DOMAIN history :
        /\ Len(history[n]) <= HistCap
        /\ Ids(history[n]) = LastN(pushed[n], HistCap)
        /\ \A k \in 1..Len(history[n]) : history[n][k].st["name"] = n
        /\ Len(pushed[n]) > HistCap =>
              /\ Len(history[n]) = HistCap
              /\ \A k \in 1..Len(history[n]) : history[n][k].id # pushed[n][1]

C2_Witness ==
    \E n \in DOMAIN history :
        /\ Len(pushed[n]) = HistCap + 2
        /\ Len(history[n]) = HistCap
        /\ history[n][1].id = pushed[n][3]

(***************************************************************************)
(* KeyboardInterrupt in the middle of a cycle, checked under SpecDirect.   *)
(***************************************************************************)
HistoryIds == UNION {{history[n][k].id : k \in 1..Len(history[n])} : n \in DOMAIN history}

\* C3: when run() is interrupted after some but not all services of a cycle
\* have been probed, no status of that cycle is in any deque and the cycle's
\* list has not been handed to display_status.
C3_InterruptedCycleDiscarded ==
    (/\ loopPc = "interrupted"
     /\ 0 < Len(services_status)
     /\ Len(services_status) < Len(services)) =>
        /\ \A k \in 1..Len(services_status) : services_status[k].id \notin HistoryIds
        /\ sinkLast # services_status

(***************************************************************************)
(* Cancellation, checked under SpecLive.                                   *)
(***************************************************************************)
InCycle == loopPc \in {"stats", "monitor", "collect", "record", "display"}

CycleComplete ==
    /\ sinkCount = cycle
    /\ \A n \in Names(services) : Len(pushed[n]) = cycle
    /\ cycle > 0 => Len(sinkLast) = Len(services)

\* C4: once the controller has cleared the run flag, run() starts no further
\* cycle, completes the cycle in progress (every service probed, the list
\* handed to display_status) and returns, so that join returns; after it has
\* returned no probe runs, no deque changes and the loop does not resume.
C4_StopAfterCurrentCycle ==
    /\ [][~running => cycle' = cycle]_vars
    /\ (~running /\ InCycle) ~> (loopPc = "sleep" /\ CycleComplete)
    /\ ~running ~> (loopPc = "stopped" /\ CycleComplete)
    /\ ~running ~> (mainPc = "done")
    /\ [](mainPc = "done" => loopPc = "stopped")
    /\ [][loopPc = "stopped" =>
             /\ loopPc' = "stopped"
             /\ UNCHANGED <<history, pushed, nextId, status, services_status,
                            sinkCount, sinkLast, cycle>>]_vars

C4_Witness ==
    /\ ~running
    /\ loopPc = "monitor"
    /\ Len(services) = 2
    /\ Len(services_status) = 1

(***************************************************************************)
(* Configuration fallback, checked under SpecConfig.                       *)
(***************************************************************************)
\* The file holds a sequence of service records.
WellFormed(file) ==
    /\ file.exists
    /\ file.readable
    /\ file.text.syntax = "json"
    /\ file.text.value.type = "list"
    /\ \A k \in 1..Len(file.text.value.items) :
          /\ file.text.value.items[k].type = "dict"
          /\ "name" \in DOMAIN file.text.value.items[k].d

\* C5: for a configuration file that is missing, unreadable, unparseable or
\* not a sequence of service records, load_config raises nothing and the
\* services loaded are the built-in default (Web Service, Database, Cache).
C5_FallbackToDefault ==
    (boot.stage # "new" /\ ~WellFormed(boot.file)) =>
        /\ boot.stage \in {"loaded", "constructed"}
        /\ boot.services = DefaultConfigValue

====
